---- MODULE Spec2Model ----
(***************************************************************************)
(* A model of zustand-computed-property (src/src/computed.ts, lines 1-183):*)
(* the module-level tracking state, the memoised resolvables made by       *)
(* computed() and watch(), the Proxy get handler, the proxy cache and the   *)
(* getState / subscribe overrides of computedMiddleware.                    *)
(*                                                                         *)
(* A store is one of the stores the tests and the README build.  Its user  *)
(* callbacks (compute, selector) are small expression trees, evaluated as  *)
(* JavaScript evaluates them: left to right, every state.k going through   *)
(* the Proxy get handler.  A top-level property read is synchronous and    *)
(* runs to completion, so it is one action; the nested calls it makes are  *)
(* the recursive operators ProxyGet / Resolve / Eval, which thread the     *)
(* mutable state (the "machine") through the evaluation.                   *)
(*                                                                         *)
(* Values are integers: numbers are themselves, booleans are 0 / 1 and     *)
(* undefined is Undefined.  Field values are never NaN.                    *)
(***************************************************************************)
EXTENDS Integers, Sequences, FiniteSets, TLC

\* ------------------------------------------------------------------ bounds
\* plain numeric fields range over 0..MaxVal
MaxVal == 1
\* The raw state objects somebody holds a view of are the two a listener is
\* called with, (state, prevState): the current state and the one before it.
\* The number of updates is not bounded; an older state is dropped, with its
\* proxy.
MaxHeld == 2
\* counters of callback invocations saturate here
MaxCount == 2

\* the value of an unassigned `let` (prevValue, prevState, prevDeps)
Undefined == -1
\* prevState before the first resolve, proxyCache.get() of an uncached state
NoProxy == 0
\* the proxy of a dropped state: no view passed in later is this object
Dropped == -2

Inc(n) == IF n < MaxCount THEN n + 1 ELSE MaxCount

\* const r = v; F(r): the value of a call is taken once and then used
With(v, F(_)) == F(v)

\* ------------------------------------------------------- user expressions
\* The callbacks the stores are built from, as expression trees.
Const(n) == [op |-> "const", k |-> "", n |-> n, args |-> <<>>]
\* state.k, on the state argument of the callback
Field(k) == [op |-> "field", k |-> k, n |-> 0, args |-> <<>>]
\* get().k, on the store's current state
Get(k) == [op |-> "get", k |-> k, n |-> 0, args |-> <<>>]
\* the i-th element of the selection passed to a watch compute
Sel(i) == [op |-> "sel", k |-> "", n |-> i, args |-> <<>>]
Add(l, r) == [op |-> "add", k |-> "", n |-> 0, args |-> <<l, r>>]
Mul(l, r) == [op |-> "mul", k |-> "", n |-> 0, args |-> <<l, r>>]
\* const x = e; x * x
Sq(e) == [op |-> "sq", k |-> "", n |-> 0, args |-> <<e>>]
\* c ? t : e
If(c, t, e) == [op |-> "if", k |-> "", n |-> 0, args |-> <<c, t, e>>]
\* untrack(() => body)
Untrack(body) == [op |-> "untrack", k |-> "", n |-> 0, args |-> <<body>>]
\* other.getState().k, a field of a second store made by computedMiddleware
Other(k) == [op |-> "other", k |-> k, n |-> 0, args |-> <<>>]
\* throw
Throw == [op |-> "throw", k |-> "", n |-> 0, args |-> <<>>]

\* ------------------------------------------------------------------ stores
Stores ==
    {"squared", "sum", "chain", "cond", "untrack", "watch", "watchGet", "watchA",
     "fail", "failSel", "failComp", "untrackIn", "untrackNest", "prod",
     "readTwice", "getStyle", "twoStores"}

PlainKeys(st) ==
    CASE st = "squared" -> {"a", "c"}
      [] st = "sum"     -> {"a", "b"}
      [] st = "chain"   -> {"a", "c"}
      [] st = "cond"    -> {"flag", "a", "b"}
      [] st = "untrack" -> {"a", "b"}
      [] st = "watch"   -> {"a", "b", "c"}
      [] st = "watchGet" -> {"a", "b", "c"}
      [] st = "watchA"  -> {"a", "c"}
      [] st \in {"fail", "failSel", "failComp"} -> {"a", "bad"}
      [] st \in {"untrackIn", "prod"} -> {"a", "b"}
      [] st = "untrackNest" -> {"a", "b", "bad"}
      [] st = "readTwice" -> {"a", "c"}
      [] st = "getStyle" -> {"count", "c"}
      [] st = "twoStores" -> {"a", "x"}

DerivedKeys(st) ==
    CASE st = "squared" -> {"squared"}
      [] st = "sum"     -> {"sum"}
      [] st = "chain"   -> {"doubled", "doubledAndSquared"}
      [] st = "cond"    -> {"c"}
      [] st = "untrack" -> {"sum"}
      [] st = "watch"   -> {"sum"}
      [] st = "watchGet" -> {"total"}
      [] st = "watchA"  -> {"doubled"}
      [] st = "fail" -> {"inner", "outer"}
      [] st \in {"failSel", "failComp"} -> {"w"}
      [] st = "untrackIn" -> {"twice", "sum"}
      [] st = "untrackNest" -> {"v"}
      [] st = "prod" -> {"prod", "prodSq"}
      [] st = "readTwice" -> {"doubled"}
      [] st = "getStyle" -> {"countSquared"}
      [] st = "twoStores" -> {"total"}

Keys(st) == PlainKeys(st) \cup DerivedKeys(st)

\* the values a plain field takes: flag and bad are booleans, the others are
\* numbers
FieldValues(k) == IF k \in {"flag", "bad"} THEN 0..1 ELSE 0..MaxVal

\* computed(compute)
Computed(compute) ==
    [kind |-> "computed", compute |-> compute, selector |-> <<>>,
     array |-> FALSE, eq |-> "is"]
\* watch(selector, compute, eq): the selector returns one value (array = FALSE)
\* or an array of values; eq is Object.is ("is") or the element-wise
\* comparison of the test ("pair")
Watch(selector, array, compute, eq) ==
    [kind |-> "watch", compute |-> compute, selector |-> selector,
     array |-> array, eq |-> eq]

NodeDef(st, k) ==
    CASE st = "squared" -> Computed(Sq(Field("a")))
      [] st = "sum" -> Computed(Add(Field("a"), Field("b")))
      [] st = "chain" /\ k = "doubled" -> Computed(Mul(Field("a"), Const(2)))
      [] st = "chain" /\ k = "doubledAndSquared" ->
            Computed(Sq(Field("doubled")))
      [] st = "cond" -> Computed(If(Field("flag"), Field("b"), Field("a")))
      [] st = "untrack" -> Computed(Add(Field("a"), Untrack(Field("b"))))
      [] st = "watch" ->
            Watch(<<Field("a"), Field("b")>>, TRUE, Add(Sel(1), Sel(2)), "pair")
      [] st = "watchGet" ->
            Watch(<<Field("a"), Field("b")>>, TRUE,
                  Add(Add(Sel(1), Sel(2)), Get("c")), "pair")
      [] st = "watchA" -> Watch(<<Field("a")>>, FALSE, Sq(Sel(1)), "is")
      \* a compute that throws after it read a and bad, and a field over it
      [] st = "fail" /\ k = "inner" ->
            Computed(Add(Field("a"), If(Field("bad"), Throw, Const(0))))
      [] st = "fail" /\ k = "outer" -> Computed(Sq(Field("inner")))
      \* a selector that throws
      [] st = "failSel" ->
            Watch(<<Field("a"), If(Field("bad"), Throw, Const(0))>>, TRUE,
                  Sq(Sel(1)), "pair")
      \* a watch compute that throws
      [] st = "failComp" ->
            Watch(<<Field("a"), Field("bad")>>, TRUE,
                  Add(Sel(1), If(Sel(2), Throw, Const(0))), "pair")
      \* a computed field read inside the untrack of another one
      [] st = "untrackIn" /\ k = "twice" ->
            Computed(Mul(Field("b"), Const(2)))
      [] st = "untrackIn" /\ k = "sum" ->
            Computed(Add(Field("a"), Untrack(Field("twice"))))
      \* untrack inside untrack, a throw inside the outer one, a read after it
      [] st = "untrackNest" ->
            Computed(Add(Untrack(Add(Untrack(Field("a")),
                                     If(Field("bad"), Throw, Const(0)))),
                         Field("b")))
      \* a field whose output is the same for several inputs, and one over it
      [] st = "prod" /\ k = "prod" -> Computed(Mul(Field("a"), Field("b")))
      [] st = "prod" /\ k = "prodSq" -> Computed(Sq(Field("prod")))
      \* the README: doubled: computed((state) => state.a * state.a)
      [] st = "readTwice" -> Computed(Mul(Field("a"), Field("a")))
      \* the README: countSquared: computed(() => get().count * get().count),
      \* the count read once
      [] st = "getStyle" -> Computed(Sq(Get("count")))
      \* a compute that also reads a field of a second store
      [] st = "twoStores" -> Computed(Add(Field("a"), Other("x")))

\* the derived fields of the store st that the callback e reads
RECURSIVE DerivedRefs(_, _)
DerivedRefs(st, e) ==
    (IF e.op \in {"field", "get"} /\ e.k \in DerivedKeys(st) THEN {e.k} ELSE {})
    \cup UNION {DerivedRefs(st, e.args[i]) : i \in 1..Len(e.args)}

\* the derived fields the callbacks of the derived field k read
NodeRefs(st, k) ==
    DerivedRefs(st, NodeDef(st, k).compute)
    \cup UNION {DerivedRefs(st, NodeDef(st, k).selector[i]) :
                  i \in 1..Len(NodeDef(st, k).selector)}

\* the height of the derived field k in the read graph of the store, which
\* has no cycle: one more than the highest field its callbacks read
RECURSIVE Rank(_, _)
Rank(st, k) ==
    IF NodeRefs(st, k) = {} THEN 1
    ELSE 1 + (CHOOSE r \in {Rank(st, j) : j \in NodeRefs(st, k)} :
                 \A j \in NodeRefs(st, k) : Rank(st, j) <= r)

\* the raw state of the second store, which is never updated
OtherState == [x |-> 1]

\* ------------------------------------------------------------------- state
VARIABLES
    store,            \* which store was created
    snaps,            \* the raw state objects held, oldest first; the last is current
    proxyCache,       \* proxyCache: raw state object (its index) -> proxy
    proxyMade,        \* per raw state object, the number of proxies created for it
    nodes,            \* per derived field, the closure variables of its resolvable
    trackingDisabled, \* module-level flag
    trackedStack,     \* module-level stack of TrackedDeps
    subscribed,       \* a listener was registered through api.subscribe
    delivered,        \* the (state, prevState) proxies last passed to the listener
    obs,              \* observer: per derived field, the view it was last resolved on
    last              \* observer: the last operation; for a read, what it invoked
                      \* and the view the field read was resolved on before it

vars == <<store, snaps, proxyCache, proxyMade, nodes, trackingDisabled,
          trackedStack, subscribed, delivered, obs, last>>

\* a cell of a raw state object: a plain value, or a tagged resolvable
Plain(v) == [resolvable |-> FALSE, v |-> v, node |-> ""]
Tagged(k) == [resolvable |-> TRUE, v |-> Undefined, node |-> k]

\* TrackedDeps
NoTracked == [def |-> FALSE, keys |-> <<>>, values |-> <<>>]
EmptyTracked == [def |-> TRUE, keys |-> <<>>, values |-> <<>>]

\* a selection: undefined, one value, or an array of values
NoDeps == [kind |-> "undef", elems |-> <<>>]

\* the closure variables of a resolvable right after computed() / watch()
NewNode ==
    [prevTracked |-> NoTracked, prevValue |-> Undefined, prevState |-> NoProxy,
     prevDeps |-> NoDeps]

\* the object the state creator returns
InitialState(st, vals) ==
    [k \in Keys(st) |-> IF k \in PlainKeys(st) THEN Plain(vals[k]) ELSE Tagged(k)]

\* the current raw state of the host store
Current == Len(snaps)

\* A proxy is a number: the n-th proxy made for the raw state s is
\* s + MaxHeld * (n - 1); with the cache at most one is ever made per state.
ProxyTarget(p) == ((p - 1) % MaxHeld) + 1

\* the plain field values of the raw state s
PlainOf(s) == [k \in PlainKeys(store) |-> snaps[s][k].v]

ZeroCount == [k \in DerivedKeys(store) |-> 0]

\* observer: a derived field not resolved yet.  failedAt is the proxy of the
\* last call of the field's resolvable when that call invoked a callback of
\* the field and raised, NoProxy otherwise.  ran is the set of the held views
\* the compute of a computed() field was invoked with, kept for the stores in
\* Audited.
Audited == {"readTwice"}

NotResolved ==
    [seen |-> FALSE, view |-> NoProxy,
     at |-> [k \in PlainKeys(store) |-> Undefined], failedAt |-> NoProxy,
     ran |-> {}]

NoObs == [k \in DerivedKeys(store) |-> NotResolved]

Op(op) ==
    [op |-> op, proxy |-> NoProxy, key |-> "", from |-> NoProxy,
     value |-> Undefined, threw |-> FALSE, runs |-> ZeroCount, sels |-> ZeroCount,
     checks |-> ZeroCount, balanced |-> TRUE, recorded |-> TRUE,
     cell |-> Plain(Undefined), ranked |-> TRUE]

\* ------------------------------------------------- the evaluation machine
\* Everything a property read can change, threaded through the nested calls:
\* the closure variables of every resolvable, the module-level tracking state,
\* the proxy cache, and (observers) how often each callback was invoked and
\* where each node was last resolved.  exc: an exception is propagating.
\* Observers of the tracking state: inflight is the number of compute calls of
\* computed() fields that have started and not yet returned or thrown;
\* balanced, that at every call of the get trap so far the stack was as deep as
\* inflight; recorded, that every recording step so far was a RecordStep.
Machine ==
    [nodes |-> nodes, stack |-> trackedStack, disabled |-> trackingDisabled,
     cache |-> proxyCache, made |-> proxyMade, obs |-> obs,
     runs |-> ZeroCount, sels |-> ZeroCount, checks |-> ZeroCount,
     exc |-> FALSE, inflight |-> 0, balanced |-> TRUE, recorded |-> TRUE,
     path |-> <<>>, ranked |-> TRUE]

\* observer: the resolvable of k is called.  path holds the fields whose
\* resolvable is running, outermost first; ranked, that every call so far was
\* of a field lower in the read graph than the field whose call encloses it.
Descend(k, m) ==
    [m EXCEPT !.path = Append(@, k),
              !.ranked = @ /\ (m.path = <<>>
                               \/ Rank(store, k) < Rank(store, m.path[Len(m.path)]))]

\* variant of Track that ignores trackingDisabled
TrackIgnoringFlag(param, value, m) ==
    IF Len(m.stack) > 0
    THEN [m EXCEPT !.stack[Len(m.stack)] =
                [@ EXCEPT !.keys = Append(@, param),
                          !.values = Append(@, value)]]
    ELSE m

\* variant of Track that pushes onto every record of the stack
TrackEveryRecord(param, value, m) ==
    IF ~m.disabled /\ Len(m.stack) > 0
    THEN [m EXCEPT !.stack = [i \in 1..Len(m.stack) |->
                                [m.stack[i] EXCEPT !.keys = Append(@, param),
                                                   !.values = Append(@, value)]]]
    ELSE m

\* entry.keys.push(param); entry.values.push(value) on the top of the stack
Track(param, value, m) ==
    IF ~m.disabled /\ Len(m.stack) > 0
    THEN [m EXCEPT !.stack[Len(m.stack)] =
                [@ EXCEPT !.keys = Append(@, param),
                          !.values = Append(@, value)]]
    ELSE m

\* What one recording step may do, from machine m to machine m2: nothing when
\* the stack is empty or tracking is disabled; otherwise one (key, value) more
\* at the end of the top record, every other record and node as it was.
RecordStep(m, m2, param, value) ==
    /\ m2.nodes = m.nodes
    /\ IF m.disabled \/ Len(m.stack) = 0
       THEN m2.stack = m.stack
       ELSE /\ Len(m2.stack) = Len(m.stack)
            /\ \A i \in 1..(Len(m.stack) - 1) : m2.stack[i] = m.stack[i]
            /\ m2.stack[Len(m.stack)].keys =
                  Append(m.stack[Len(m.stack)].keys, param)
            /\ m2.stack[Len(m.stack)].values =
                  Append(m.stack[Len(m.stack)].values, value)

\* observer: the get trap is entered
Entered(m) == [m EXCEPT !.balanced = @ /\ Len(m.stack) = m.inflight]

\* the recording step of the get trap, with its observers
Record(param, value, m) ==
    [Track(param, value, m) EXCEPT
        !.recorded = @ /\ RecordStep(m, Track(param, value, m), param, value),
        !.balanced = @ /\ Len(m.stack) = m.inflight]

\* getStateProxy(state): the cached proxy of a raw state object, made on demand
GetStateProxy(s, m) ==
    IF m.cache[s] # NoProxy
    THEN [v |-> m.cache[s], m |-> m]
    ELSE LET id == s + MaxHeld * m.made[s]
         IN [v |-> id,
             m |-> [m EXCEPT !.made[s] = @ + 1, !.cache[s] = id]]

\* !prevDeps
Falsy(d) == d.kind = "undef" \/ (d.kind = "prim" /\ d.elems[1] = 0)

\* Object.is on two selections: arrays are fresh objects of separate selector
\* calls, never the same object
ObjectIs(d1, d2) == d1.kind = "prim" /\ d2.kind = "prim" /\ d1.elems = d2.elems

\* (prev, next) => prev[0] === next[0] && prev[1] === next[1]
PairEq(d1, d2) == d1.elems[1] = d2.elems[1] /\ d1.elems[2] = d2.elems[2]

\* variant of Eq that ignores the eq argument of watch()
EqIgnoringCustom(eq, d1, d2) == ObjectIs(d1, d2)

Eq(eq, d1, d2) == IF eq = "pair" THEN PairEq(d1, d2) ELSE ObjectIs(d1, d2)

\* The nested calls of one property read call each other in a cycle (the get
\* trap resolves a node, whose callback reads properties through the get
\* trap).  Call is the one recursive operator; the names ending in C make the
\* call of the operator they name.
RECURSIVE Call(_, _)
ProxyGetC(p, param, m) == Call("ProxyGet", <<p, param, m>>)
ResolveC(k, p, m) == Call("Resolve", <<k, p, m>>)
CheckDepsC(tracked, i, p, m) == Call("CheckDeps", <<tracked, i, p, m>>)
EvalC(e, p, sel, m) == Call("Eval", <<e, p, sel, m>>)
EvalSelectorC(es, i, p, m) == Call("EvalSelector", <<es, i, p, m>>)

\* variant of untrack that switches tracking on again when it exits
UntrackSwitchOn(body, p, sel, m) ==
    With(EvalC(body, p, sel, [m EXCEPT !.disabled = TRUE]),
         LAMBDA r : [v |-> r.v, m |-> [r.m EXCEPT !.disabled = FALSE]])

\* untrack(callback): the flag is saved, set, and put back in the finally
\* block, whether the callback returns or throws
UntrackCall(body, p, sel, m) ==
    With(EvalC(body, p, sel, [m EXCEPT !.disabled = TRUE]),
         LAMBDA r : [v |-> r.v, m |-> [r.m EXCEPT !.disabled = m.disabled]])

\* the user callback e, called with state argument p (a proxy) and, for a watch
\* compute, the selection sel; returns [v: its value, m: the machine after it]
Eval(e, p, sel, m) ==
    CASE e.op = "const" -> [v |-> e.n, m |-> m]
      [] e.op = "field" -> ProxyGetC(p, e.k, m)
      [] e.op = "get" ->
            With(GetStateProxy(Current, m), LAMBDA g : ProxyGetC(g.v, e.k, g.m))
      [] e.op = "sel" -> [v |-> sel[e.n], m |-> m]
      [] e.op = "other" ->
            [v |-> OtherState[e.k],
             m |-> Record(e.k, OtherState[e.k], Entered(m))]
      [] e.op \in {"add", "mul"} ->
            With(EvalC(e.args[1], p, sel, m), LAMBDA l :
              IF l.m.exc THEN l
              ELSE With(EvalC(e.args[2], p, sel, l.m), LAMBDA r :
                     IF r.m.exc THEN r
                     ELSE [v |-> IF e.op = "add" THEN l.v + r.v ELSE l.v * r.v,
                           m |-> r.m]))
      [] e.op = "sq" ->
            With(EvalC(e.args[1], p, sel, m), LAMBDA x :
              IF x.m.exc THEN x ELSE [v |-> x.v * x.v, m |-> x.m])
      [] e.op = "if" ->
            With(EvalC(e.args[1], p, sel, m), LAMBDA c :
              IF c.m.exc THEN c
              ELSE IF c.v # 0 THEN EvalC(e.args[2], p, sel, c.m)
                              ELSE EvalC(e.args[3], p, sel, c.m))
      [] e.op = "untrack" -> UntrackCall(e.args[1], p, sel, m)
      [] e.op = "throw" -> [v |-> Undefined, m |-> [m EXCEPT !.exc = TRUE]]

\* the elements the selector returns, evaluated left to right from the i-th
EvalSelector(es, i, p, m) ==
    IF i > Len(es) THEN [v |-> <<>>, m |-> m]
    ELSE With(EvalC(es[i], p, <<>>, m), LAMBDA r :
           IF r.m.exc THEN [v |-> <<>>, m |-> r.m]
           ELSE With(EvalSelectorC(es, i + 1, p, r.m), LAMBDA rest :
                  [v |-> <<r.v>> \o rest.v, m |-> rest.m]))

\* variant of CheckDeps that compares the first recorded entry only
CheckDepsFirstOnly(tracked, i, p, m) ==
    IF i > 1 \/ i > Len(tracked.keys) THEN [v |-> 0, m |-> m]
    ELSE With(ProxyGetC(p, tracked.keys[i], m), LAMBDA r :
           IF r.m.exc THEN r
           ELSE IF r.v # tracked.values[i] THEN [v |-> 1, m |-> r.m]
           ELSE [v |-> 0, m |-> r.m])

\* variant of CheckDeps with === in place of !==
CheckDepsInverted(tracked, i, p, m) ==
    IF i > Len(tracked.keys) THEN [v |-> 0, m |-> m]
    ELSE With(ProxyGetC(p, tracked.keys[i], m), LAMBDA r :
           IF r.m.exc THEN r
           ELSE IF r.v = tracked.values[i] THEN [v |-> 1, m |-> r.m]
           ELSE CheckDepsC(tracked, i + 1, p, r.m))

\* the dependency check loop from index i: v = 1 when an entry differs
CheckDeps(tracked, i, p, m) ==
    IF i > Len(tracked.keys) THEN [v |-> 0, m |-> m]
    ELSE With(ProxyGetC(p, tracked.keys[i], m), LAMBDA r :
           IF r.m.exc THEN r
           ELSE IF r.v # tracked.values[i] THEN [v |-> 1, m |-> r.m]
           ELSE CheckDepsC(tracked, i + 1, p, r.m))

\* variant of Recompute that stores the record of a compute that throws
RecomputePoisoned(k, p, m) ==
    With(EvalC(NodeDef(store, k).compute, p, <<>>,
               [m EXCEPT !.stack = Append(@, EmptyTracked),
                         !.runs[k] = Inc(@), !.inflight = @ + 1]),
         LAMBDA r :
           IF r.m.exc
           THEN [v |-> Undefined,
                 m |-> [r.m EXCEPT !.stack = SubSeq(@, 1, Len(@) - 1),
                                   !.inflight = @ - 1,
                                   !.nodes[k].prevTracked =
                                       r.m.stack[Len(r.m.stack)]]]
           ELSE [v |-> r.v,
                 m |-> [r.m EXCEPT !.stack = SubSeq(@, 1, Len(@) - 1),
                                   !.inflight = @ - 1,
                                   !.nodes[k].prevValue = r.v,
                                   !.nodes[k].prevTracked =
                                       r.m.stack[Len(r.m.stack)]]])

\* variant of Recompute that pops the record only when compute throws
RecomputeNoPop(k, p, m) ==
    With(EvalC(NodeDef(store, k).compute, p, <<>>,
               [m EXCEPT !.stack = Append(@, EmptyTracked),
                         !.runs[k] = Inc(@), !.inflight = @ + 1]),
         LAMBDA r :
           IF r.m.exc
           THEN [v |-> Undefined,
                 m |-> [r.m EXCEPT !.stack = SubSeq(@, 1, Len(@) - 1),
                                   !.inflight = @ - 1]]
           ELSE [v |-> r.v,
                 m |-> [r.m EXCEPT !.inflight = @ - 1,
                                   !.nodes[k].prevValue = r.v,
                                   !.nodes[k].prevTracked =
                                       r.m.stack[Len(r.m.stack)]]])

\* variant of Recompute without the finally block: a compute that throws
\* leaves its record on the stack
RecomputeNoFinally(k, p, m) ==
    With(EvalC(NodeDef(store, k).compute, p, <<>>,
               [m EXCEPT !.stack = Append(@, EmptyTracked),
                         !.runs[k] = Inc(@), !.inflight = @ + 1]),
         LAMBDA r :
           IF r.m.exc
           THEN [v |-> Undefined, m |-> [r.m EXCEPT !.inflight = @ - 1]]
           ELSE [v |-> r.v,
                 m |-> [r.m EXCEPT !.stack = SubSeq(@, 1, Len(@) - 1),
                                   !.inflight = @ - 1,
                                   !.nodes[k].prevValue = r.v,
                                   !.nodes[k].prevTracked =
                                       r.m.stack[Len(r.m.stack)]]])

\* variant of Recompute that pushes the previous record, when there is one,
\* in place of a fresh one
RecomputeKeepRecord(k, p, m) ==
    With(EvalC(NodeDef(store, k).compute, p, <<>>,
               [m EXCEPT !.stack = Append(@, IF m.nodes[k].prevTracked.def
                                             THEN m.nodes[k].prevTracked
                                             ELSE EmptyTracked),
                         !.runs[k] = Inc(@), !.inflight = @ + 1]),
         LAMBDA r :
           IF r.m.exc
           THEN [v |-> Undefined,
                 m |-> [r.m EXCEPT !.stack = SubSeq(@, 1, Len(@) - 1),
                                   !.inflight = @ - 1]]
           ELSE [v |-> r.v,
                 m |-> [r.m EXCEPT !.stack = SubSeq(@, 1, Len(@) - 1),
                                   !.inflight = @ - 1,
                                   !.nodes[k].prevValue = r.v,
                                   !.nodes[k].prevTracked =
                                       r.m.stack[Len(r.m.stack)]]])

\* recompute: compute runs under a fresh record pushed on the stack; the
\* record is popped whether compute returns or throws, and the closure
\* variables are assigned only when it returns
Recompute(k, p, m) ==
    With(EvalC(NodeDef(store, k).compute, p, <<>>,
               [m EXCEPT !.stack = Append(@, EmptyTracked),
                         !.runs[k] = Inc(@), !.inflight = @ + 1,
                         !.obs[k].ran = IF store \in Audited THEN @ \cup {p}
                                        ELSE @]),
         LAMBDA r :
           IF r.m.exc
           THEN [v |-> Undefined,
                 m |-> [r.m EXCEPT !.stack = SubSeq(@, 1, Len(@) - 1),
                                   !.inflight = @ - 1]]
           ELSE [v |-> r.v,
                 m |-> [r.m EXCEPT !.stack = SubSeq(@, 1, Len(@) - 1),
                                   !.inflight = @ - 1,
                                   !.nodes[k].prevValue = r.v,
                                   !.nodes[k].prevTracked =
                                       r.m.stack[Len(r.m.stack)]]])

\* variant of Revalidate that assigns prevState before anything else
RevalidateIdentityFirst(k, p, m) ==
    With(IF m.nodes[k].prevTracked.def
         THEN CheckDepsC(m.nodes[k].prevTracked, 1, p,
                         [m EXCEPT !.checks[k] = Inc(@),
                                   !.nodes[k].prevState = p])
         ELSE [v |-> 1, m |-> [m EXCEPT !.nodes[k].prevState = p]],
         LAMBDA chk :
           IF chk.m.exc THEN chk
           ELSE With(IF chk.v = 1 THEN Recompute(k, p, chk.m)
                     ELSE [v |-> chk.m.nodes[k].prevValue, m |-> chk.m],
                     LAMBDA r :
                       IF r.m.exc THEN r
                       ELSE [v |-> r.m.nodes[k].prevValue, m |-> r.m]))

\* variant of Revalidate that assigns prevState only after a recomputation
RevalidateKeepIdentity(k, p, m) ==
    With(IF m.nodes[k].prevTracked.def
         THEN CheckDepsC(m.nodes[k].prevTracked, 1, p,
                         [m EXCEPT !.checks[k] = Inc(@)])
         ELSE [v |-> 1, m |-> m],
         LAMBDA chk :
           IF chk.m.exc THEN chk
           ELSE IF chk.v = 1
           THEN With(Recompute(k, p, chk.m),
                     LAMBDA r :
                       IF r.m.exc THEN r
                       ELSE [v |-> r.m.nodes[k].prevValue,
                             m |-> [r.m EXCEPT !.nodes[k].prevState = p]])
           ELSE [v |-> chk.m.nodes[k].prevValue, m |-> chk.m])

\* the resolvable of computed() past the identity test: the dependency check,
\* then the recomputation when it is needed, then prevState = state
Revalidate(k, p, m) ==
    With(IF m.nodes[k].prevTracked.def
         THEN CheckDepsC(m.nodes[k].prevTracked, 1, p,
                         [m EXCEPT !.checks[k] = Inc(@)])
         ELSE [v |-> 1, m |-> m],
         LAMBDA chk :
           IF chk.m.exc THEN chk
           ELSE With(IF chk.v = 1 THEN Recompute(k, p, chk.m)
                     ELSE [v |-> chk.m.nodes[k].prevValue, m |-> chk.m],
                     LAMBDA r :
                       IF r.m.exc THEN r
                       ELSE [v |-> r.m.nodes[k].prevValue,
                             m |-> [r.m EXCEPT !.nodes[k].prevState = p]]))

\* variant of ResolveComputed without the identity test
ResolveComputedNoIdentity(k, p, m) == Revalidate(k, p, m)

\* the resolvable of computed(), called with proxy p
ResolveComputed(k, p, m) ==
    IF p = m.nodes[k].prevState
    THEN [v |-> m.nodes[k].prevValue, m |-> m]
    ELSE Revalidate(k, p, m)

\* the resolvable of watch(), called with proxy p
ResolveWatch(k, p, m) ==
    IF p = m.nodes[k].prevState
    THEN [v |-> m.nodes[k].prevValue, m |-> m]
    ELSE
    With(EvalSelectorC(NodeDef(store, k).selector, 1, p,
                       [m EXCEPT !.sels[k] = Inc(@)]),
         LAMBDA s :
           LET def == NodeDef(store, k)
               nextDeps == [kind |-> IF def.array THEN "arr" ELSE "prim",
                            elems |-> s.v]
               prevDeps == s.m.nodes[k].prevDeps
           IN IF s.m.exc THEN [v |-> Undefined, m |-> s.m]
              ELSE IF Falsy(prevDeps) \/ ~Eq(def.eq, prevDeps, nextDeps)
              THEN With(EvalC(def.compute, p, nextDeps.elems,
                              [s.m EXCEPT !.runs[k] = Inc(@)]),
                        LAMBDA r :
                          IF r.m.exc THEN r
                          ELSE [v |-> r.v,
                                m |-> [r.m EXCEPT !.nodes[k].prevValue = r.v,
                                                  !.nodes[k].prevDeps = nextDeps]])
              ELSE [v |-> s.m.nodes[k].prevValue,
                    m |-> [s.m EXCEPT !.nodes[k].prevDeps = nextDeps]])

\* value = callable(proxy); the observer notes the view of a call that
\* returns, and of one that raises after invoking a callback of the field
Resolve(k, p, m) ==
    With(IF NodeDef(store, k).kind = "computed"
         THEN ResolveComputed(k, p, Descend(k, m))
         ELSE ResolveWatch(k, p, Descend(k, m)),
         LAMBDA r :
           IF r.m.exc
           THEN [v |-> r.v,
                 m |-> [r.m EXCEPT !.path = m.path,
                                   !.obs[k].failedAt =
                            IF r.m.runs[k] # m.runs[k] \/ r.m.sels[k] # m.sels[k]
                            THEN p ELSE NoProxy]]
           ELSE [v |-> r.v,
                 m |-> [r.m EXCEPT !.path = m.path,
                                   !.obs[k] =
                            [seen |-> TRUE, view |-> p,
                             at |-> PlainOf(ProxyTarget(p)),
                             failedAt |-> NoProxy,
                             ran |-> r.m.obs[k].ran]]])

\* variant of ProxyGet that records target[param], the resolvable itself for
\* a derived field, in place of the resolved value
ProxyGetRaw(p, param, m) ==
    With(IF snaps[ProxyTarget(p)][param].resolvable
         THEN ResolveC(snaps[ProxyTarget(p)][param].node, p, m)
         ELSE [v |-> snaps[ProxyTarget(p)][param].v, m |-> m],
         LAMBDA r :
           IF r.m.exc THEN r
           ELSE [v |-> r.v,
                 m |-> Track(param, snaps[ProxyTarget(p)][param].v, r.m)])

\* variant of ProxyGet whose target is the store's current state whatever
\* state the proxy was made for
ProxyGetCurrent(p, param, m) ==
    With(IF snaps[Current][param].resolvable
         THEN ResolveC(snaps[Current][param].node, p, m)
         ELSE [v |-> snaps[Current][param].v, m |-> m],
         LAMBDA r :
           IF r.m.exc THEN r
           ELSE [v |-> r.v, m |-> Track(param, r.v, r.m)])

\* the get trap of the proxy p for property param
ProxyGet(p, param, m) ==
    With(IF snaps[ProxyTarget(p)][param].resolvable
         THEN ResolveC(snaps[ProxyTarget(p)][param].node, p, Entered(m))
         ELSE [v |-> snaps[ProxyTarget(p)][param].v, m |-> Entered(m)],
         LAMBDA r :
           IF r.m.exc THEN r
           ELSE [v |-> r.v, m |-> Record(param, r.v, r.m)])

Call(f, a) ==
    CASE f = "ProxyGet" -> ProxyGet(a[1], a[2], a[3])
      [] f = "Resolve" -> Resolve(a[1], a[2], a[3])
      [] f = "CheckDeps" -> CheckDeps(a[1], a[2], a[3], a[4])
      [] f = "Eval" -> Eval(a[1], a[2], a[3], a[4])
      [] f = "EvalSelector" -> EvalSelector(a[1], a[2], a[3], a[4])

\* ----------------------------------------------------------------- actions
InitOf(sts) ==
    /\ store \in sts
    /\ \E vals \in [PlainKeys(store) -> 0..MaxVal] :
          /\ \A k \in PlainKeys(store) : vals[k] \in FieldValues(k)
          /\ snaps = <<InitialState(store, vals)>>
    /\ proxyCache = [s \in 1..MaxHeld |-> NoProxy]
    /\ proxyMade = [s \in 1..MaxHeld |-> 0]
    /\ nodes = [k \in DerivedKeys(store) |-> NewNode]
    /\ trackingDisabled = FALSE
    /\ trackedStack = <<>>
    /\ subscribed = FALSE
    /\ delivered = <<NoProxy, NoProxy>>
    /\ obs = NoObs
    /\ last = Op("create")

Init == InitOf(Stores)

\* store.getState(): the proxy of the current state
GetState ==
    LET g == GetStateProxy(Current, Machine)
    IN /\ proxyCache[Current] = NoProxy
       /\ proxyCache' = g.m.cache
       /\ proxyMade' = g.m.made
       /\ last' = Op("getState")
       /\ UNCHANGED <<store, snaps, nodes, trackingDisabled, trackedStack,
                      subscribed, delivered, obs>>

\* the proxies somebody holds: those of the held raw states
Held == {proxyCache[s] : s \in 1..Len(snaps)} \ {NoProxy}

\* variant of ReadField that stores the resolved value of a derived field in
\* the raw state object, in place of its resolvable
ReadFieldMemoInState(p, k) ==
    \E r \in {ProxyGet(p, k, Machine)} :
       /\ nodes' = r.m.nodes
       /\ trackedStack' = r.m.stack
       /\ trackingDisabled' = r.m.disabled
       /\ proxyCache' = r.m.cache
       /\ proxyMade' = r.m.made
       /\ obs' = r.m.obs
       /\ last' = [op |-> "read", proxy |-> p, key |-> k,
                   from |-> IF k \in DerivedKeys(store) THEN obs[k].view
                            ELSE NoProxy,
                   value |-> r.v, threw |-> r.m.exc, runs |-> r.m.runs,
                   sels |-> r.m.sels, checks |-> r.m.checks,
                   balanced |-> r.m.balanced, recorded |-> r.m.recorded,
                   cell |-> Plain(Undefined), ranked |-> r.m.ranked]
       /\ snaps' = IF k \in DerivedKeys(store) /\ ~r.m.exc
                   THEN [snaps EXCEPT ![ProxyTarget(p)][k] = Plain(r.v)]
                   ELSE snaps
       /\ UNCHANGED <<store, subscribed, delivered>>

\* view.k, for a proxy somebody holds (from getState() or from a listener call)
ReadField(p, k) ==
    \E r \in {ProxyGet(p, k, Machine)} :
       /\ nodes' = r.m.nodes
       /\ trackedStack' = r.m.stack
       /\ trackingDisabled' = r.m.disabled
       /\ proxyCache' = r.m.cache
       /\ proxyMade' = r.m.made
       /\ obs' = r.m.obs
       /\ last' = [op |-> "read", proxy |-> p, key |-> k,
                   from |-> IF k \in DerivedKeys(store) THEN obs[k].view
                            ELSE NoProxy,
                   value |-> r.v, threw |-> r.m.exc, runs |-> r.m.runs,
                   sels |-> r.m.sels, checks |-> r.m.checks,
                   balanced |-> r.m.balanced, recorded |-> r.m.recorded,
                   cell |-> Plain(Undefined), ranked |-> r.m.ranked]
       /\ UNCHANGED <<store, snaps, subscribed, delivered>>

\* variant of ReadRaw that resolves the field as a view does
ReadRawResolving(s, k) ==
    \E r \in {ProxyGet(s, k, Machine)} :
       /\ nodes' = r.m.nodes
       /\ obs' = r.m.obs
       /\ last' = [Op("readRaw") EXCEPT !.key = k, !.value = r.v,
                                        !.runs = r.m.runs, !.sels = r.m.sels,
                                        !.checks = r.m.checks,
                                        !.cell = Plain(r.v)]
       /\ UNCHANGED <<store, snaps, proxyCache, proxyMade, trackingDisabled,
                      trackedStack, subscribed, delivered>>

\* raw.k on the raw state object s itself, which the updater passed to
\* set() receives: a plain property read, the proxy is not involved
ReadRaw(s, k) ==
    /\ last' = [Op("readRaw") EXCEPT !.key = k, !.cell = snaps[s][k]]
    /\ UNCHANGED <<store, snaps, proxyCache, proxyMade, nodes,
                   trackingDisabled, trackedStack, subscribed, delivered, obs>>

\* store.subscribe(listener)
Subscribe ==
    /\ ~subscribed
    /\ subscribed' = TRUE
    /\ last' = Op("subscribe")
    /\ UNCHANGED <<store, snaps, proxyCache, proxyMade, nodes,
                   trackingDisabled, trackedStack, delivered, obs>>

\* a proxy after the oldest held state is dropped: the states move down by one
Shift(p) ==
    IF p <= 0 THEN p ELSE IF ProxyTarget(p) = 1 THEN Dropped ELSE p - 1

\* store.setState(partial): the host store makes a new raw state object,
\* Object.assign({}, state, partial), and calls the listener with the proxies
\* of the new and of the previous state
SetState(partial) ==
    LET state == [k \in Keys(store) |->
                    IF k \in DOMAIN partial THEN Plain(partial[k])
                    ELSE snaps[Current][k]]
        full == Len(snaps) = MaxHeld
        sh(p) == IF full THEN Shift(p) ELSE p
        prev == IF full THEN MaxHeld - 1 ELSE Current
        cache == [s \in 1..MaxHeld |->
                    IF ~full THEN proxyCache[s]
                    ELSE IF s < MaxHeld THEN Shift(proxyCache[s + 1]) ELSE NoProxy]
        made == [s \in 1..MaxHeld |->
                    IF ~full THEN proxyMade[s]
                    ELSE IF s < MaxHeld THEN proxyMade[s + 1] ELSE 0]
        prevStateProxy ==
            GetStateProxy(prev, [Machine EXCEPT !.cache = cache, !.made = made])
        stateProxy == GetStateProxy(prev + 1, prevStateProxy.m)
    IN /\ snaps' = (IF full THEN Tail(snaps) ELSE snaps) \o <<state>>
       /\ IF subscribed
          THEN /\ proxyCache' = stateProxy.m.cache
               /\ proxyMade' = stateProxy.m.made
               /\ delivered' = <<stateProxy.v, prevStateProxy.v>>
          ELSE /\ proxyCache' = cache
               /\ proxyMade' = made
               /\ delivered' = <<sh(delivered[1]), sh(delivered[2])>>
       /\ nodes' = [k \in DerivedKeys(store) |->
                      [nodes[k] EXCEPT !.prevState = sh(@)]]
       /\ obs' = [k \in DerivedKeys(store) |->
                    [obs[k] EXCEPT !.view = sh(@), !.failedAt = sh(@),
                                   !.ran = {sh(v) : v \in @} \ {Dropped}]]
       /\ last' = Op("setState")
       /\ UNCHANGED <<store, trackingDisabled, trackedStack, subscribed>>

Partials ==
    UNION {[S -> 0..MaxVal] : S \in SUBSET PlainKeys(store)}

Next ==
    \/ GetState
    \/ Subscribe
    \/ \E p \in Held, k \in Keys(store) : ReadField(p, k)
    \/ \E partial \in Partials :
          /\ \A k \in DOMAIN partial : partial[k] \in FieldValues(k)
          /\ SetState(partial)

Spec == Init /\ [][Next]_vars

\* a store nobody subscribes to
NextDirect ==
    \/ GetState
    \/ \E p \in Held, k \in Keys(store) : ReadField(p, k)
    \/ \E partial \in Partials :
          /\ \A k \in DOMAIN partial : partial[k] \in FieldValues(k)
          /\ SetState(partial)

\* a store whose raw state objects are also read directly
NextRaw ==
    \/ NextDirect
    \/ \E s \in 1..Len(snaps), k \in Keys(store) : ReadRaw(s, k)

\* ---------------------------------------------------------- specifications
\* the stores whose compute reads only its state argument, without untrack
PureStores == {"squared", "sum", "chain", "cond"}

\* every store whose derived fields are made by computed()
SpecComputed ==
    InitOf(PureStores \cup {"untrack"}) /\ [][NextDirect]_vars

SpecSquared == InitOf({"squared"}) /\ [][NextDirect]_vars

SpecChain == InitOf({"chain"}) /\ [][NextDirect]_vars

SpecCond == InitOf({"cond"}) /\ [][NextDirect]_vars

SpecUntrack == InitOf({"untrack"}) /\ [][NextDirect]_vars

\* the stores whose selector returns [state.a, state.b], compared element-wise
SpecWatch == InitOf({"watch", "watchGet"}) /\ [][NextDirect]_vars

\* the store of the README: watch((state) => state.a, (a) => a * a)
SpecWatchA == InitOf({"watchA"}) /\ [][NextDirect]_vars

\* stores with a listener
SpecListener == InitOf({"squared", "sum", "untrack"}) /\ [][Next]_vars

\* stores with a callback that throws when the field bad is set: a computed
\* field and one that reads it, a watch field whose selector throws, a watch
\* field whose compute throws
SpecFail == InitOf({"fail", "failSel", "failComp"}) /\ [][NextDirect]_vars

\* twice = b * 2 and sum = a + untrack(() => state.twice)
SpecUntrackIn == InitOf({"untrackIn"}) /\ [][NextDirect]_vars

\* a computed and a watch field in stores with a listener
SpecListenerWatch == InitOf({"squared", "watchA"}) /\ [][Next]_vars

\* v = untrack(() => untrack(() => state.a) + (state.bad ? throw : 0)) + b
SpecUntrackNest == InitOf({"untrackNest"}) /\ [][NextDirect]_vars

\* a store whose computes nest and one whose compute uses untrack
SpecRecord == InitOf({"chain", "untrack"}) /\ [][NextDirect]_vars

\* the store of the README whose compute reads state.a twice
SpecReadTwice == InitOf({"readTwice"}) /\ [][NextDirect]_vars

\* a computed and a watch field, read through views and on the raw states
SpecRaw == InitOf({"squared", "watchA"}) /\ [][NextRaw]_vars

\* the store of the README whose compute reads get().count, with a listener
SpecGetStyle == InitOf({"getStyle"}) /\ [][Next]_vars

\* the store of the README whose compute reads state.a twice, with a listener
SpecAlternate == InitOf({"readTwice"}) /\ [][Next]_vars

\* total = state.a + other.getState().x, other being a second store
SpecTwoStores == InitOf({"twoStores"}) /\ [][NextDirect]_vars

\* prod = a * b and prodSq = prod * prod
SpecProd == InitOf({"prod"}) /\ [][NextDirect]_vars

\* -------------------------------------------------------------- references
\* the plain field k of the raw state the proxy p was made for
PlainAt(p, k) == snaps[ProxyTarget(p)][k].v

\* The value the expression e has on the raw state s alone: every field is
\* taken from s, a derived field by its definition, with no cache and no
\* record involved.
RECURSIVE Pure(_, _, _)
Pure(e, s, sel) ==
    CASE e.op = "const" -> e.n
      [] e.op \in {"field", "get"} ->
            LET t == IF e.op = "get" THEN Current ELSE s
                cell == snaps[t][e.k]
                def == NodeDef(store, e.k)
            IN IF ~cell.resolvable THEN cell.v
               ELSE Pure(def.compute, t,
                         [i \in 1..Len(def.selector) |->
                             Pure(def.selector[i], t, <<>>)])
      [] e.op = "sel" -> sel[e.n]
      [] e.op = "other" -> OtherState[e.k]
      [] e.op = "throw" -> Undefined
      [] e.op = "add" -> Pure(e.args[1], s, sel) + Pure(e.args[2], s, sel)
      [] e.op = "mul" -> Pure(e.args[1], s, sel) * Pure(e.args[2], s, sel)
      [] e.op = "sq" -> Pure(e.args[1], s, sel) * Pure(e.args[1], s, sel)
      [] e.op = "if" -> IF Pure(e.args[1], s, sel) # 0
                        THEN Pure(e.args[2], s, sel)
                        ELSE Pure(e.args[3], s, sel)
      [] e.op = "untrack" -> Pure(e.args[1], s, sel)

\* the derived field k as its definition gives it on the raw state s
Derive(k, s) == Pure(Field(k), s, <<>>)

\* the last operation read the derived field k
ReadOf(op, k) == op.op = "read" /\ op.key = k

IsComputed(k) ==
    k \in DerivedKeys(store) /\ NodeDef(store, k).kind = "computed"

IsWatch(k) ==
    k \in DerivedKeys(store) /\ NodeDef(store, k).kind = "watch"

C2_DependencyMinimality ==
    [][(/\ ReadOf(last', "squared")
        /\ obs["squared"].seen
        /\ obs["squared"].at["a"] = PlainAt(last'.proxy, "a"))
       => (/\ ~last'.threw
           /\ last'.runs["squared"] = 0
           /\ last'.value = nodes["squared"].prevValue)]_vars

\* squared was read on a new view after an update that changed c alone: the
\* dependency check ran and compute did not
C2_Witness ==
    /\ store = "squared"
    /\ ReadOf(last, "squared")
    /\ Len(snaps) = 2
    /\ last.proxy = proxyCache[Current]
    /\ snaps[1]["a"].v = snaps[2]["a"].v
    /\ snaps[1]["c"].v # snaps[2]["c"].v
    /\ last.checks["squared"] = 1
    /\ last.runs["squared"] = 0
    /\ last.value = snaps[2]["a"].v * snaps[2]["a"].v

\* C3: a read of a computed field on the view it was last resolved on returns
\* the stored value without the dependency check and without compute: no
\* callback of any field runs and no closure variable changes.  So two
\* consecutive reads of the same field on the same view return the same value
\* and invoke compute at most once in total.
C3_ComputedIdentityFastPath ==
    [][(last'.op = "read" /\ IsComputed(last'.key))
       => LET k == last'.key
          IN /\ last'.runs[k] <= 1
             /\ (obs[k].seen /\ obs[k].view = last'.proxy)
                => (/\ ~last'.threw
                    /\ last'.value = nodes[k].prevValue
                    /\ last'.runs = ZeroCount
                    /\ last'.checks = ZeroCount
                    /\ nodes' = nodes)
             /\ (ReadOf(last, k) /\ last.proxy = last'.proxy /\ ~last.threw)
                => (/\ last'.value = last.value
                    /\ last'.runs[k] = 0)]_vars

\* a computed field was read on the view its resolvable was last called with,
\* so neither the dependency check nor compute ran
C3_Witness ==
    /\ IsComputed(last.key)
    /\ last.op = "read"
    /\ last.runs = ZeroCount
    /\ last.checks = ZeroCount
    /\ last.from = last.proxy
    /\ nodes[last.key].prevState = last.proxy
    /\ last.value = nodes[last.key].prevValue

\* C4: a watch field stores the view it was last resolved on, so a read on
\* that same view invokes neither selector nor compute and returns the stored
\* value.
C4_WatchIdentityFastPath ==
    [][(last'.op = "read" /\ IsWatch(last'.key) /\ ~last'.threw)
       => LET k == last'.key
          IN (obs[k].seen /\ obs[k].view = last'.proxy)
             => (/\ last'.sels[k] = 0
                 /\ last'.runs[k] = 0
                 /\ last'.value = nodes[k].prevValue)]_vars

\* the views of the current and of the previous state, in a store that holds
\* both
CurrentView == proxyCache[Current]

PreviousView == IF Len(snaps) = 2 THEN proxyCache[1] ELSE NoProxy

\* C5: with doubled = f(a) and doubledAndSquared = g(doubled), both resolved
\* on the previous view or already on the new one, a read of either on the new
\* view runs the compute of a field exactly once when a changed and the field
\* was not yet resolved on the new view, and not at all otherwise; it leaves
\* every field it went through resolved on the new view.  So after an update of
\* a each compute runs exactly once, whichever field is read first, and after
\* an update that leaves a alone neither runs.
C5_ChainedOncePerUpdate ==
    [][(/\ last'.op = "read"
        /\ last'.key \in {"doubled", "doubledAndSquared"}
        /\ PreviousView # NoProxy
        /\ last'.proxy = CurrentView
        /\ obs["doubled"].seen /\ obs["doubledAndSquared"].seen
        /\ <<obs["doubled"].view, obs["doubledAndSquared"].view>> \in
              {<<PreviousView, PreviousView>>, <<CurrentView, PreviousView>>,
               <<CurrentView, CurrentView>>})
       => LET changed == snaps[1]["a"].v # snaps[2]["a"].v
              due(n) == changed /\ obs[n].view = PreviousView
          IN /\ ~last'.threw
             /\ last'.runs["doubled"] = IF due("doubled") THEN 1 ELSE 0
             /\ last'.runs["doubledAndSquared"] =
                   IF last'.key = "doubledAndSquared" /\ due("doubledAndSquared")
                   THEN 1 ELSE 0
             /\ obs'["doubled"].view = CurrentView
             /\ last'.key = "doubledAndSquared"
                => obs'["doubledAndSquared"].view = CurrentView
             /\ last'.value = Derive(last'.key, Current)]_vars

\* after an update of a, doubledAndSquared was read first on the new view:
\* both dependency checks ran and both computes ran once
C5_Witness ==
    /\ store = "chain"
    /\ ReadOf(last, "doubledAndSquared")
    /\ Len(snaps) = 2
    /\ last.proxy = CurrentView
    /\ snaps[1]["a"].v # snaps[2]["a"].v
    /\ last.checks = [k \in DerivedKeys(store) |-> 1]
    /\ last.runs = [k \in DerivedKeys(store) |-> 1]
    /\ last.value = (2 * snaps[2]["a"].v) * (2 * snaps[2]["a"].v)

\* C6: the record of c = flag ? b : a is replaced at each recomputation by the
\* fields read in that run: it holds flag and b when flag was true and flag
\* and a when it was false, with the values they had.  A read recomputes
\* exactly when flag, or the one of a and b in the record, differs from the
\* record; a change of the other one alone does not recompute.
C6_ConditionalDependencies ==
    [][LET t == nodes'["c"].prevTracked
           at == obs'["c"].at
       IN /\ t.def
             => \/ t.keys = <<"flag", "b">> /\ t.values = <<1, at["b"]>>
                                            /\ at["flag"] = 1
                \/ t.keys = <<"flag", "a">> /\ t.values = <<0, at["a"]>>
                                            /\ at["flag"] = 0
          /\ (ReadOf(last', "c") /\ obs["c"].seen)
             => LET p == last'.proxy
                    dep == IF obs["c"].at["flag"] = 1 THEN "b" ELSE "a"
                    changed == \/ PlainAt(p, "flag") # obs["c"].at["flag"]
                               \/ PlainAt(p, dep) # obs["c"].at[dep]
                IN /\ ~last'.threw
                   /\ last'.runs["c"] = IF changed THEN 1 ELSE 0
                   /\ ~changed => last'.value = nodes["c"].prevValue]_vars

\* with flag true in both held states, c was read on the new view after an
\* update that changed a alone: the record is (flag, b), the dependency check
\* ran and compute did not
C6_Witness ==
    /\ store = "cond"
    /\ ReadOf(last, "c")
    /\ Len(snaps) = 2
    /\ last.proxy = CurrentView
    /\ snaps[1]["flag"].v = 1 /\ snaps[2]["flag"].v = 1
    /\ snaps[1]["a"].v # snaps[2]["a"].v
    /\ snaps[1]["b"].v = snaps[2]["b"].v
    /\ nodes["c"].prevTracked.keys = <<"flag", "b">>
    /\ last.checks["c"] = 1
    /\ last.runs["c"] = 0
    /\ last.value = snaps[2]["b"].v

\* C7: for sum = a + untrack(b) the record holds a alone.  A read recomputes
\* exactly when a differs from the a the field was last resolved with, and
\* then with the b of the state read; when a is the same compute does not run
\* and the stored value comes back, whatever b is now.
C7_UntrackExclusion ==
    [][ReadOf(last', "sum")
       => LET p == last'.proxy
              same == obs["sum"].seen /\ PlainAt(p, "a") = obs["sum"].at["a"]
          IN /\ ~last'.threw
             /\ nodes'["sum"].prevTracked.keys = <<"a">>
             /\ last'.runs["sum"] = IF same THEN 0 ELSE 1
             /\ same => last'.value = nodes["sum"].prevValue
             /\ ~same => last'.value = PlainAt(p, "a") + PlainAt(p, "b")]_vars

\* sum was read on the new view after an update that changed b alone: the
\* dependency check ran, compute did not, and the value that came back is not
\* a + b of the state read
C7_Witness ==
    /\ store = "untrack"
    /\ ReadOf(last, "sum")
    /\ Len(snaps) = 2
    /\ last.proxy = CurrentView
    /\ snaps[1]["a"].v = snaps[2]["a"].v
    /\ snaps[1]["b"].v # snaps[2]["b"].v
    /\ last.checks["sum"] = 1
    /\ last.runs["sum"] = 0
    /\ last.value # snaps[2]["a"].v + snaps[2]["b"].v

\* C8: a watch field whose selector returns [a, b], compared element by
\* element, runs compute on its first resolution and when a or b differs from
\* the one it was last resolved with, and at no other resolution, whatever
\* compute itself reads (total reads get().c); otherwise the stored value comes
\* back.
C8_WatchSelectorScoped ==
    [][(last'.op = "read" /\ IsWatch(last'.key))
       => LET k == last'.key
              p == last'.proxy
              differ == \/ ~obs[k].seen
                        \/ PlainAt(p, "a") # obs[k].at["a"]
                        \/ PlainAt(p, "b") # obs[k].at["b"]
          IN /\ ~last'.threw
             /\ last'.runs[k] = IF differ THEN 1 ELSE 0
             /\ ~differ => last'.value = nodes[k].prevValue]_vars

\* total = a + b + get().c was read on the new view after an update that
\* changed c alone: the selector ran, compute did not, and the value that came
\* back is the one of the old c
C8_Witness ==
    /\ store = "watchGet"
    /\ ReadOf(last, "total")
    /\ Len(snaps) = 2
    /\ last.proxy = CurrentView
    /\ snaps[1]["a"].v = snaps[2]["a"].v
    /\ snaps[1]["b"].v = snaps[2]["b"].v
    /\ snaps[1]["c"].v # snaps[2]["c"].v
    /\ last.sels["total"] = 1
    /\ last.runs["total"] = 0
    /\ last.value # snaps[2]["a"].v + snaps[2]["b"].v + snaps[2]["c"].v

\* C9: with the default equality, a watch field runs compute exactly when
\* there is no previous selection or the new selection differs from it, for
\* every value the selector returns: doubled = watch(s => s.a, a => a * a)
\* is recomputed only when a changes.
C9_WatchRecomputeRule ==
    [][ReadOf(last', "doubled")
       => LET differ == \/ ~obs["doubled"].seen
                        \/ PlainAt(last'.proxy, "a") # obs["doubled"].at["a"]
          IN last'.runs["doubled"] = IF differ THEN 1 ELSE 0]_vars

\* the listener was called with the views of the new and of the previous state
ListenerCalled ==
    /\ subscribed
    /\ delivered[1] # NoProxy

DeliveredViews ==
    /\ Len(snaps) = 2
    /\ delivered = <<proxyCache[2], proxyCache[1]>>
    /\ ProxyTarget(delivered[1]) = 2
    /\ ProxyTarget(delivered[2]) = 1

\* the last operation read a derived field on one of the listener's two views
ReadOnDelivered ==
    /\ last.op = "read"
    /\ last.key \in DerivedKeys(store)
    /\ last.proxy \in {delivered[1], delivered[2]}

Invoked(op, k) == op.runs[k] + op.sels[k]

\* C11 as stated: after a read of a derived field that raised in a callback
\* of the field, the next read of the field invokes a callback of the field
\* again, on the same view and on the view of a newer state, one the field
\* was not resolved on, alike.
C11_RetryAsStated ==
    [][(/\ last'.op = "read"
        /\ last'.key \in DerivedKeys(store)
        /\ obs[last'.key].failedAt > 0
        /\ nodes[last'.key].prevState # last'.proxy
        /\ \/ last'.proxy = obs[last'.key].failedAt
           \/ ProxyTarget(last'.proxy) > ProxyTarget(obs[last'.key].failedAt))
       => Invoked(last', last'.key) > 0]_vars

\* C11: a callback that raises makes the read raise, and every field whose
\* callback was invoked by that read keeps its closure variables as they
\* were.  The next read of the failed field on the same view invokes its
\* callback again (and raises again).  On another view no callback of the
\* field is invoked only if the field is a computed one with a record, whose
\* dependency check ran (or the view is the one it last resolved on), and
\* then its record and value stay as they were.
C11_DerivationFailure ==
    [][(last'.op = "read" /\ last'.key \in DerivedKeys(store))
       => LET k == last'.key
          IN /\ last'.threw <=> (PlainAt(last'.proxy, "bad") = 1)
             /\ last'.threw
                => (/\ last'.value = Undefined
                    /\ Invoked(last', k) > 0 \/ last'.checks[k] > 0
                    /\ \A j \in DerivedKeys(store) :
                          (j = k \/ Invoked(last', j) > 0)
                          => nodes'[j] = nodes[j])
             /\ (obs[k].failedAt > 0 /\ last'.proxy = obs[k].failedAt)
                => (Invoked(last', k) > 0 /\ last'.threw)
             /\ (obs[k].failedAt # NoProxy /\ Invoked(last', k) = 0)
                => (/\ IsComputed(k)
                    /\ nodes[k].prevTracked.def
                    /\ last'.checks[k] > 0 \/ nodes[k].prevState = last'.proxy
                    /\ nodes'[k].prevTracked = nodes[k].prevTracked
                    /\ nodes'[k].prevValue = nodes[k].prevValue)]_vars

\* a field that has a stored value was read on a view where its callback
\* throws: the callback ran, the read raised, the stored value is still there
C11_Witness ==
    /\ store \in {"fail", "failSel", "failComp"}
    /\ last.op = "read"
    /\ last.key \in DerivedKeys(store)
    /\ last.threw
    /\ Invoked(last, last.key) > 0
    /\ obs[last.key].seen
    /\ obs[last.key].failedAt = last.proxy
    /\ nodes[last.key].prevValue # Undefined

\* C12: a computed field whose evaluation is started inside the untrack body
\* of another field's compute still records what it reads: the record of
\* twice = b * 2, once there is one, is the read of b, and a read of twice
\* returns b * 2 on the view it is read on.
C12_InnerRecordUnderUntrack ==
    store = "untrackIn"
    => /\ nodes["twice"].prevTracked.def
          => nodes["twice"].prevTracked.keys = <<"b">>
       /\ (ReadOf(last, "twice") /\ ~last.threw)
          => last.value = 2 * PlainAt(last.proxy, "b")

\* the view p is of a state newer than the state of the view q (which may
\* have been dropped since)
Newer(p, q) ==
    p > 0 /\ (q = Dropped \/ (q > 0 /\ ProxyTarget(p) > ProxyTarget(q)))

\* C13: prodSq reads the derived field prod = a * b and nothing else, so its
\* compute runs on a read on a newer state only if prod differs from what it
\* was where prodSq was last resolved: a change of a or b that leaves a * b
\* the same never makes the compute of prodSq run.
C13_OutputBasedChaining ==
    [][(/\ store = "prod"
        /\ ReadOf(last', "prodSq")
        /\ obs["prodSq"].seen
        /\ Newer(last'.proxy, obs["prodSq"].view)
        /\ obs["prodSq"].at["a"] * obs["prodSq"].at["b"]
             = PlainAt(last'.proxy, "a") * PlainAt(last'.proxy, "b"))
       => last'.runs["prodSq"] = 0]_vars

\* at most one view was ever made for a held raw state, the cached view of a
\* state is a view of that state, and the views a listener was called with
\* are the cached ones
CacheIdentity ==
    /\ \A s \in 1..MaxHeld :
          /\ proxyMade[s] <= 1
          /\ proxyCache[s] # NoProxy => ProxyTarget(proxyCache[s]) = s
    /\ \A i \in 1..2 :
          delivered[i] > 0 => delivered[i] = proxyCache[ProxyTarget(delivered[i])]

\* the last read was on a view a listener was called with
OnDelivered(op) == op.proxy > 0 /\ op.proxy \in {delivered[1], delivered[2]}

\* C14: a raw state has one view, the same from getState() and in listener
\* calls, and distinct raw states have distinct views; hence a derived field
\* that was last resolved on a snapshot's view and is read again on the view
\* a listener got for that snapshot returns the stored value and its compute
\* is not invoked again.
C14_SnapshotCacheIdentity ==
    [][/\ CacheIdentity'
       /\ (/\ last'.op = "read"
           /\ last'.key \in DerivedKeys(store)
           /\ OnDelivered(last')
           /\ obs[last'.key].seen
           /\ obs[last'.key].view = last'.proxy)
          => (/\ last'.runs[last'.key] = 0
              /\ last'.value = nodes[last'.key].prevValue)]_vars

\* C15: a read through a view, whatever it resolves, recomputes or raises,
\* leaves every held raw state as the host store made it: the same plain
\* values, and every derived field still its tagged resolvable.
C15_RawStateNotMutated ==
    [][last'.op = "read"
       => /\ snaps' = snaps
          /\ \A s \in 1..Len(snaps') :
                /\ \A k \in DerivedKeys(store) : snaps'[s][k] = Tagged(k)
                /\ \A k \in PlainKeys(store) : ~snaps'[s][k].resolvable]_vars

\* outer was read where inner throws: both computes ran, nested, the read
\* raised, and the raw state still holds the two resolvables
C15_Witness ==
    /\ store = "fail"
    /\ ReadOf(last, "outer")
    /\ last.threw
    /\ last.runs["outer"] = 1
    /\ last.runs["inner"] = 1
    /\ nodes["inner"].prevValue # Undefined
    /\ snaps[ProxyTarget(last.proxy)]["outer"] = Tagged("outer")
    /\ snaps[ProxyTarget(last.proxy)]["inner"] = Tagged("inner")

\* C16: between operations the tracking stack is empty, after a read that
\* returned and after one that raised at any depth; and at every property
\* read inside the last operation, when the get trap was entered and when
\* it recorded, the stack was as deep as the number of computes of
\* computed() fields that had started and not yet returned or thrown.
C16_StackDiscipline ==
    /\ trackedStack = <<>>
    /\ last.balanced

\* inner threw two computes deep, below the compute of outer, after a
\* dependency check of outer: the read raised and the stack is empty
C16_Witness ==
    /\ store = "fail"
    /\ ReadOf(last, "outer")
    /\ last.threw
    /\ last.checks["outer"] = 1
    /\ last.runs["outer"] = 1
    /\ last.runs["inner"] = 1
    /\ last.balanced
    /\ trackedStack = <<>>

\* C17: outside every untrack call tracking is on, after reads that returned
\* and after reads whose untrack body raised; and inside an untrack body the
\* exit of a nested untrack leaves tracking off, as it found it: of the reads
\* of v = untrack(() => untrack(() => a) + (bad ? throw : 0)) + b, the one
\* of bad after the inner untrack is not recorded and the one of b after the
\* outer untrack is.
C17_UntrackRestores ==
    /\ trackingDisabled = FALSE
    /\ (store = "untrackNest" /\ nodes["v"].prevTracked.def)
       => nodes["v"].prevTracked.keys = <<"b">>

\* v has a record from a compute that returned, and its last read raised
\* inside the outer untrack body, after the inner untrack had returned
C17_Witness ==
    /\ store = "untrackNest"
    /\ ReadOf(last, "v")
    /\ last.threw
    /\ last.runs["v"] = 1
    /\ PlainAt(last.proxy, "bad") = 1
    /\ nodes["v"].prevTracked.keys = <<"b">>
    /\ trackingDisabled = FALSE

\* C18: every recording step of the last operation did what record may do:
\* with the stack empty or tracking suppressed it changed no open record and
\* no record stored in a node; otherwise it appended (key, value) to the top
\* record and changed no other record.
C18_RecordStep ==
    last.recorded

\* doubledAndSquared was read and both computes ran: a was read two records
\* deep and went to the record of doubled, the read itself was made with
\* the stack empty
C18_Witness ==
    /\ store = "chain"
    /\ ReadOf(last, "doubledAndSquared")
    /\ last.runs["doubled"] = 1
    /\ last.runs["doubledAndSquared"] = 1
    /\ nodes["doubled"].prevTracked.keys = <<"a">>
    /\ last.recorded

\* sum = a + untrack(() => b) was computed: the read of a was recorded and
\* the read of b, made while tracking was suppressed, was not
C18_WitnessSuppressed ==
    /\ store = "untrack"
    /\ last.op = "read"
    /\ last.key \in DerivedKeys(store)
    /\ last.runs[last.key] = 1
    /\ nodes[last.key].prevTracked.keys = <<"a">>
    /\ last.recorded

\* the value of the field key on the raw state of the view p
ValueOn(p, key) ==
    IF key \in PlainKeys(store) THEN PlainAt(p, key)
    ELSE Derive(key, ProxyTarget(p))

\* every recorded (key, value) of the record holds on the view p
RecordMatches(tracked, p) ==
    \A i \in 1..Len(tracked.keys) : tracked.values[i] = ValueOn(p, tracked.keys[i])

\* C19: a computed field that has a record and is read on a view other than
\* the one it last resolved on, where every recorded (key, value) holds,
\* returns the stored value without invoking compute; its record and value
\* stay as they were and the view becomes its last one, so that a read on
\* that view right after takes the identity test.
C19_DependencyMatchPath ==
    [][(/\ last'.op = "read"
        /\ IsComputed(last'.key)
        /\ nodes[last'.key].prevState # last'.proxy
        /\ nodes[last'.key].prevTracked.def
        /\ RecordMatches(nodes[last'.key].prevTracked, last'.proxy))
       => LET k == last'.key
          IN /\ ~last'.threw
             /\ last'.checks[k] = 1
             /\ last'.runs[k] = 0
             /\ last'.value = nodes[k].prevValue
             /\ nodes'[k] = [nodes[k] EXCEPT !.prevState = last'.proxy]]_vars

\* a computed field was read on the view of a state that differs from the
\* one it last resolved on, in fields it did not record: the dependency check
\* ran, compute did not, and the view is now its last one
C19_Witness ==
    /\ store \in PureStores
    /\ last.op = "read"
    /\ IsComputed(last.key)
    /\ last.from > 0
    /\ last.from # last.proxy
    /\ Len(snaps) = 2
    /\ PlainOf(1) # PlainOf(2)
    /\ ProxyTarget(last.from) # ProxyTarget(last.proxy)
    /\ last.checks[last.key] = 1
    /\ last.runs = ZeroCount
    /\ nodes[last.key].prevState = last.proxy
    /\ RecordMatches(nodes[last.key].prevTracked, last.proxy)

\* C20: the compute of doubledAndSquared reads the computed field doubled
\* once and nothing else, so its record, once there is one, is the one entry
\* (doubled, resolved output of doubled): what doubled reads while it
\* resolves, in its dependency check or in its compute, is not in it.
C20_NestedResolutionOneEntry ==
    (store = "chain" /\ nodes["doubledAndSquared"].prevTracked.def)
    => /\ nodes["doubledAndSquared"].prevTracked.keys = <<"doubled">>
       /\ nodes["doubledAndSquared"].prevTracked.values =
             <<nodes["doubled"].prevValue>>

\* the keys of a record are pairwise distinct
UniqueKeys(tracked) ==
    \A i, j \in 1..Len(tracked.keys) :
       tracked.keys[i] = tracked.keys[j] => i = j

\* C21: no key occurs twice in the record a computed field stores, also when
\* its compute read the same field several times.
C21_RecordKeysUnique ==
    \A k \in DerivedKeys(store) : UniqueKeys(nodes[k].prevTracked)

\* C22: a computed field that stores a record stores a value, one that a
\* compute of the field returned; and it stores a last view only if it
\* stores a record.
C22_NodeStateInvariant ==
    \A k \in DerivedKeys(store) :
       IsComputed(k)
       => /\ nodes[k].prevTracked.def
             => (nodes[k].prevValue # Undefined /\ obs[k].seen)
          /\ nodes[k].prevState # NoProxy => nodes[k].prevTracked.def

\* the first read of outer raised, inner having a record from before: outer
\* stores nothing, inner what its last compute that returned left
C22_Witness ==
    /\ store = "fail"
    /\ ReadOf(last, "outer")
    /\ last.threw
    /\ last.runs["outer"] = 1
    /\ nodes["outer"] = NewNode
    /\ nodes["inner"].prevTracked.def
    /\ nodes["inner"].prevValue # Undefined
    /\ nodes["inner"].prevState # NoProxy

\* C23: a derived field read on a raw state object itself gives the tagged
\* resolvable, not a value; no compute and no selector is invoked, nothing
\* is recorded, and no closure variable of any field changes.
C23_RawReadGivesNode ==
    [][(last'.op = "readRaw" /\ last'.key \in DerivedKeys(store))
       => (/\ last'.cell = Tagged(last'.key)
           /\ last'.value = Undefined
           /\ last'.runs = ZeroCount
           /\ last'.sels = ZeroCount
           /\ last'.checks = ZeroCount
           /\ nodes' = nodes
           /\ trackedStack' = trackedStack
           /\ snaps' = snaps)]_vars

\* a derived field that was resolved through a view before, and whose plain
\* field changed since, was read on the current raw state
C23_Witness ==
    /\ last.op = "readRaw"
    /\ last.key \in DerivedKeys(store)
    /\ last.cell = Tagged(last.key)
    /\ obs[last.key].seen
    /\ Len(snaps) = 2
    /\ snaps[1]["a"].v # snaps[2]["a"].v
    /\ nodes[last.key].prevValue # Derive(last.key, Current)

\* every recorded (key, value) of the record is what a read of the key on the
\* view p gives now
RecordHoldsOn(tracked, p) ==
    \A i \in 1..Len(tracked.keys) :
       tracked.values[i] = ProxyGet(p, tracked.keys[i], Machine).v

\* C24: between operations, every computed field that stores a record and
\* whose last view is still held recorded, for each key, the value a read of
\* that key on its last view gives.
C24_RecordIdentityConsistency ==
    \A k \in DerivedKeys(store) :
       (IsComputed(k) /\ nodes[k].prevTracked.def /\ nodes[k].prevState > 0)
       => RecordHoldsOn(nodes[k].prevTracked, nodes[k].prevState)

\* C26: countSquared, whose compute reads get().count, read on the view of
\* the previous state after the store has moved on, is the square of the
\* count of that previous state.
C26_GetStyleOnOldView ==
    (/\ store = "getStyle"
     /\ ReadOf(last, "countSquared")
     /\ ProxyTarget(last.proxy) < Current)
    => (/\ ~last.threw
        /\ last.value = PlainAt(last.proxy, "count") * PlainAt(last.proxy, "count"))

\* C25: the compute of a computed field is invoked at most once with a given
\* view: a read on a view it already ran with does not invoke it, also when
\* reads alternate between the two views a listener was called with.
C25_OnceComputedPerView ==
    [][(/\ last'.op = "read"
        /\ IsComputed(last'.key)
        /\ store \in Audited
        /\ last'.proxy \in obs[last'.key].ran)
       => last'.runs[last'.key] = 0]_vars

\* C27: the compute of total reads a on its own store's view and x on the
\* view of a second store; the read on the second store's view is not in
\* the record of total, which is the read of a alone.
C27_StoreIsolation ==
    (store = "twoStores" /\ nodes["total"].prevTracked.def)
    => nodes["total"].prevTracked.keys = <<"a">>

\* C28: in every reachable state, the read of every field on every held
\* view has an outcome, a value or an exception, and leaves the tracking
\* stack empty and no resolvable running; the resolvable calls nested inside
\* it go strictly down the read graph of the store, so that no chain of
\* nested calls is longer than the graph is high.
C28_Termination ==
    /\ trackedStack = <<>>
    /\ last.ranked
    /\ \A p \in Held, k \in Keys(store) :
          With(ProxyGet(p, k, Machine),
               LAMBDA r : /\ r.m.exc \/ r.v # Undefined
                          /\ r.m.stack = <<>>
                          /\ r.m.path = <<>>
                          /\ r.m.ranked)

\* outer was read on a new view and returned: its dependency check resolved
\* inner, which recomputed, then outer recomputed, and the stack is empty
C28_Witness ==
    /\ store = "fail"
    /\ ReadOf(last, "outer")
    /\ ~last.threw
    /\ last.checks["outer"] = 1
    /\ last.checks["inner"] = 1
    /\ last.runs["inner"] = 1
    /\ last.runs["outer"] = 1
    /\ last.ranked
    /\ trackedStack = <<>>

====
